---- MODULE Spec2Model ----
(***************************************************************************)
(* Conviction Engine v3 (src/app.py): calculate_moving_average,            *)
(* calculate_rsi and generate_signals.                                     *)
(*                                                                         *)
(* A run of generate_signals is the state machine: the two moving-average  *)
(* calls, the RSI call (its seed, then one step per iteration of the       *)
(* Wilder loop), and the signal loop.  A raise ends the run in "raised".   *)
(*                                                                         *)
(* Numbers.  None is the empty tuple.  A Python int, and every value       *)
(* computed from ints only, is an exact rational <<num, den>> in lowest    *)
(* terms with den > 0: integer-priced runs are computed in the real-number *)
(* arithmetic of the price series.  A Python float is a binary64 value     *)
(* <<sign, exp, mant>> = (-1)^sign * mant * 2^exp whose mant is a natural  *)
(* number of exactly MantBits bits (or zero), held as little-endian limbs  *)
(* of LimbBits bits; every float operation is the exact result rounded to  *)
(* nearest, ties to even.  An operation with a float operand converts the  *)
(* other operand to float first, as Python does.  Exponent range           *)
(* (overflow, subnormals) and the sign of zero are not modelled.           *)
(***************************************************************************)
EXTENDS Integers, Sequences, FiniteSets, TLC

\* ---------------------------------------------------------------- bounds
MaxLen == 4
MaxPrice == 2
MaxPeriod == 3

\* default thresholds of generate_signals
DefaultOversold == 30
DefaultOverbought == 70

None == <<>>

Periods == {-1, 0} \cup (1..MaxPeriod)
Thresholds == {0, DefaultOversold, DefaultOverbought}

\* ------------------------------------------------------ exact arithmetic
Abs(n) == IF n < 0 THEN -n ELSE n

RECURSIVE GCD(_, _)
GCD(a, b) == IF b = 0 THEN a ELSE GCD(b, a % b)

RNorm(n, d) ==
  LET g == GCD(Abs(n), Abs(d))
      s == IF d < 0 THEN -1 ELSE 1
  IN  <<(s * n) \div g, (s * d) \div g>>

R(k) == <<k, 1>>

RAdd(x, y) == RNorm(x[1] * y[2] + y[1] * x[2], x[2] * y[2])
RSub(x, y) == RNorm(x[1] * y[2] - y[1] * x[2], x[2] * y[2])
RMul(x, y) == RNorm(x[1] * y[1], x[2] * y[2])
RDiv(x, y) == RNorm(x[1] * y[2], x[2] * y[1])
RLt(x, y) == x[1] * y[2] < y[1] * x[2]

\* ------------------------------------------- natural numbers in limbs
LimbBits == 15
Base == 2 ^ LimbBits

RECURSIVE BNorm(_)
BNorm(a) ==
  IF a # <<>> /\ a[Len(a)] = 0 THEN BNorm(SubSeq(a, 1, Len(a) - 1)) ELSE a

RECURSIVE BFromInt(_)
BFromInt(n) ==
  IF n = 0 THEN <<>> ELSE <<n % Base>> \o BFromInt(n \div Base)

RECURSIVE BAddC(_, _, _)
BAddC(a, b, c) ==
  IF a = <<>> /\ b = <<>> THEN (IF c = 0 THEN <<>> ELSE <<c>>)
  ELSE LET x == IF a = <<>> THEN 0 ELSE a[1]
           y == IF b = <<>> THEN 0 ELSE b[1]
           ta == IF a = <<>> THEN <<>> ELSE Tail(a)
           tb == IF b = <<>> THEN <<>> ELSE Tail(b)
       IN  <<(x + y + c) % Base>> \o BAddC(ta, tb, (x + y + c) \div Base)
BAdd(a, b) == BAddC(a, b, 0)

\* a - b - c for a >= b + c
RECURSIVE BSubC(_, _, _)
BSubC(a, b, c) ==
  IF a = <<>> THEN <<>>
  ELSE LET y == IF b = <<>> THEN 0 ELSE b[1]
           tb == IF b = <<>> THEN <<>> ELSE Tail(b)
           d == a[1] - y - c
       IN  IF d < 0 THEN <<d + Base>> \o BSubC(Tail(a), tb, 1)
           ELSE <<d>> \o BSubC(Tail(a), tb, 0)
BSub(a, b) == BNorm(BSubC(a, b, 0))

\* -1, 0, 1 as a < b, a = b, a > b
RECURSIVE BCmp(_, _)
BCmp(a, b) ==
  IF Len(a) # Len(b) THEN (IF Len(a) < Len(b) THEN -1 ELSE 1)
  ELSE IF a = <<>> THEN 0
  ELSE IF a[Len(a)] # b[Len(b)]
         THEN (IF a[Len(a)] < b[Len(b)] THEN -1 ELSE 1)
  ELSE BCmp(BNorm(SubSeq(a, 1, Len(a) - 1)), BNorm(SubSeq(b, 1, Len(b) - 1)))

\* a * m + c for 0 <= m, c < Base
RECURSIVE BMulSmall(_, _, _)
BMulSmall(a, m, c) ==
  IF a = <<>> THEN (IF c = 0 THEN <<>> ELSE <<c>>)
  ELSE <<(a[1] * m + c) % Base>>
         \o BMulSmall(Tail(a), m, (a[1] * m + c) \div Base)

\* one more limb of the dividend, below those that gave hi = <<q, r>>
DivSmallStep(hi, limb, d) ==
  <<<<(hi[2] * Base + limb) \div d>> \o hi[1], (hi[2] * Base + limb) % d>>

RECURSIVE BDivSmallRaw(_, _)
BDivSmallRaw(a, d) ==
  IF a = <<>> THEN <<<<>>, 0>>
  ELSE DivSmallStep(BDivSmallRaw(Tail(a), d), a[1], d)

NormQuotient(qr) == <<BNorm(qr[1]), qr[2]>>

\* <<a div d, a mod d>> for 0 < d < Base
BDivSmall(a, d) == NormQuotient(BDivSmallRaw(a, d))

RECURSIVE BMul(_, _)
BMul(a, b) ==
  IF a = <<>> \/ b = <<>> THEN <<>>
  ELSE BNorm(BAdd(BMulSmall(a, b[1], 0), <<0>> \o BMul(a, Tail(b))))

RECURSIVE BShl(_, _)
BShl(a, k) ==
  IF a = <<>> \/ k = 0 THEN a
  ELSE IF k >= LimbBits THEN <<0>> \o BShl(a, k - LimbBits)
  ELSE BMulSmall(a, 2 ^ k, 0)

RECURSIVE IntBitLen(_)
IntBitLen(n) == IF n = 0 THEN 0 ELSE 1 + IntBitLen(n \div 2)
BitLen(a) ==
  IF a = <<>> THEN 0 ELSE LimbBits * (Len(a) - 1) + IntBitLen(a[Len(a)])
BOdd(a) == a # <<>> /\ a[1] % 2 = 1

\* the k low bits of limb, high bit first, brought down into qr = <<q, r>>:
\* each bit makes it <<2q + 1, 2r + bit - d>> or <<2q, 2r + bit>>
RECURSIVE DivLimb(_, _, _, _)
DivLimb(qr, limb, k, d) ==
  IF k = 0 THEN qr
  ELSE IF BCmp(BAddC(qr[2], qr[2], (limb \div (2 ^ (k - 1))) % 2), d) >= 0
    THEN DivLimb(<<BAddC(qr[1], qr[1], 1),
                   BSub(BAddC(qr[2], qr[2], (limb \div (2 ^ (k - 1))) % 2), d)>>,
                 limb, k - 1, d)
    ELSE DivLimb(<<BAdd(qr[1], qr[1]),
                   BAddC(qr[2], qr[2], (limb \div (2 ^ (k - 1))) % 2)>>,
                 limb, k - 1, d)

\* <<n div d, n mod d>> for d of two limbs or more, high limb first
RECURSIVE BDivLong(_, _)
BDivLong(n, d) ==
  IF Len(n) < Len(d) THEN <<<<>>, n>>
  ELSE DivLimb(BDivLong(Tail(n), d), n[1], LimbBits, d)

LimbRemainder(qr) == <<qr[1], BFromInt(qr[2])>>

\* <<n div d, n mod d>> for d # 0
BDivMod(n, d) ==
  IF Len(d) = 1 THEN LimbRemainder(BDivSmall(n, d[1])) ELSE BDivLong(n, d)

\* the number of zero limbs at the low end of a # 0
RECURSIVE LowZeroLimbs(_)
LowZeroLimbs(a) == IF a[1] = 0 THEN 1 + LowZeroLimbs(Tail(a)) ELSE 0

\* ------------------------------------------------------------ binary64
MantBits == 53

FZero == <<0, 0, <<>>>>
IsFloat(x) == Len(x) = 3

\* m mod 2^k compared with 2^(k-1): -1, 0, 1
LowBitsCmpHalf(m, k) ==
  BCmp(BNorm(SubSeq(m, 1, k \div LimbBits)
             \o <<BDivSmall(SubSeq(m, k \div LimbBits + 1, Len(m)),
                            2 ^ (k % LimbBits))[2]>>),
       BShl(<<1>>, k - 1))

\* m div 2^k
BShr(m, k) ==
  BDivSmall(SubSeq(m, k \div LimbBits + 1, Len(m)), 2 ^ (k % LimbBits))[1]

\* q or q + 1: to nearest, ties to even, where c compares the bits dropped
\* with one half and sticky says that the exact value lies strictly above
RoundUp(q, c, sticky) ==
  IF c > 0 \/ (c = 0 /\ (sticky \/ BOdd(q))) THEN BAddC(q, <<>>, 1) ELSE q

\* m div 2^k rounded
RoundShift(m, k, sticky) == RoundUp(BShr(m, k), LowBitsCmpHalf(m, k), sticky)

\* r of MantBits bits, or 2^MantBits after a carry out of the rounding
Renorm(s, e, r) ==
  IF BitLen(r) > MantBits THEN <<s, e + 1, BShr(r, 1)>> ELSE <<s, e, r>>

\* (-1)^s * m * 2^e for m of len bits, exactly or rounded
RoundLen(s, m, e, sticky, len) ==
  IF len = 0 THEN FZero
  ELSE IF len <= MantBits
    THEN <<s, e - (MantBits - len), BShl(m, MantBits - len)>>
  ELSE Renorm(s, e + (len - MantBits), RoundShift(m, len - MantBits, sticky))

\* the float nearest to (-1)^s * m * 2^e
RoundPack(s, m, e, sticky) == RoundLen(s, m, e, sticky, BitLen(m))

\* float(n) of an int n, exact
FFromInt(n) ==
  RoundLen(IF n < 0 THEN 1 ELSE 0, BFromInt(Abs(n)), 0, FALSE,
           IntBitLen(Abs(n)))

FNeg(x) == <<1 - x[1], x[2], x[3]>>

\* <<sign, magnitude>> of (-1)^sx * mx + (-1)^sy * my
SignedSum(sx, mx, sy, my) ==
  IF sx = sy THEN <<sx, BAdd(mx, my)>>
  ELSE IF BCmp(mx, my) >= 0 THEN <<sx, BSub(mx, my)>>
  ELSE <<sy, BSub(my, mx)>>

\* x + y exactly, in units of 2^e for e the lesser exponent
ExactSum(x, y, e) ==
  SignedSum(x[1], BShl(x[3], x[2] - e), y[1], BShl(y[3], y[2] - e))

MinExp(x, y) == IF x[2] < y[2] THEN x[2] ELSE y[2]
RoundSum(sm, e) == RoundPack(sm[1], sm[2], e, FALSE)

FAdd(x, y) == RoundSum(ExactSum(x, y, MinExp(x, y)), MinExp(x, y))

FSub(x, y) == FAdd(x, FNeg(y))

FMul(x, y) ==
  RoundPack((x[1] + y[1]) % 2, BMul(x[3], y[3]), x[2] + y[2], FALSE)

RoundQuotient(s, qr, e) == RoundPack(s, qr[1], e, qr[2] # <<>>)

\* x / y for y # 0 whose mantissa is d * Base^t: MantBits + 3 quotient bits
\* at least, the rest sticky
FDivLimbs(x, y, t) ==
  RoundQuotient((x[1] + y[1]) % 2,
                BDivMod(BShl(x[3], MantBits + 3),
                        SubSeq(y[3], t + 1, Len(y[3]))),
                x[2] - y[2] - (MantBits + 3) - LimbBits * t)

FDiv(x, y) == FDivLimbs(x, y, LowZeroLimbs(y[3]))

IsNegative(sm) == sm[1] = 1 /\ sm[2] # <<>>

FLt(x, y) == IsNegative(ExactSum(x, FNeg(y), MinExp(x, y)))

\* float(x) of an int; of an exact quotient n/d, the true division n / d
ToFloat(x) ==
  IF IsFloat(x) THEN x
  ELSE IF x[2] = 1 THEN FFromInt(x[1])
  ELSE FDiv(FFromInt(x[1]), FFromInt(x[2]))

\* the operators of the source: + - * / < > != max min abs
Add(x, y) ==
  IF IsFloat(x) \/ IsFloat(y) THEN FAdd(ToFloat(x), ToFloat(y))
  ELSE RAdd(x, y)
Sub(x, y) ==
  IF IsFloat(x) \/ IsFloat(y) THEN FSub(ToFloat(x), ToFloat(y))
  ELSE RSub(x, y)
Mul(x, y) ==
  IF IsFloat(x) \/ IsFloat(y) THEN FMul(ToFloat(x), ToFloat(y))
  ELSE RMul(x, y)
Div(x, y) ==
  IF IsFloat(x) \/ IsFloat(y) THEN FDiv(ToFloat(x), ToFloat(y))
  ELSE RDiv(x, y)
Lt(x, y) ==
  IF IsFloat(x) \/ IsFloat(y) THEN FLt(ToFloat(x), ToFloat(y))
  ELSE RLt(x, y)
Gt(x, y) == Lt(y, x)
Neq(x, y) == Lt(x, y) \/ Lt(y, x)
PyMax(x, y) == IF Gt(y, x) THEN y ELSE x
PyMin(x, y) == IF Lt(y, x) THEN y ELSE x
PyAbs(x) == IF Lt(x, R(0)) THEN Sub(R(0), x) ELSE x

\* sum(xs): 0 + xs[0] + xs[1] + ..., left to right
RECURSIVE PySum(_)
PySum(xs) ==
  IF xs = <<>> THEN R(0)
  ELSE Add(PySum(SubSeq(xs, 1, Len(xs) - 1)), xs[Len(xs)])

\* xs[lo:hi] for 0 <= lo
Slice(xs, lo, hi) ==
  SubSeq(xs, lo + 1, IF hi < Len(xs) THEN hi ELSE Len(xs))

\* ------------------------------------------- calculate_moving_average
\* MAEntry leaving one more leading entry undefined
MAEntryLate(data, period, i) ==
  IF i < period THEN None
  ELSE Div(PySum(Slice(data, i - period + 1, i + 1)), R(period))

\* the body of the for loop at index i
MAEntry(data, period, i) ==
  IF i + 1 < period THEN None
  ELSE Div(PySum(Slice(data, i - period + 1, i + 1)), R(period))

\* the value returned when period > 0
calculate_moving_average(data, period) ==
  [k \in 1..Len(data) |-> MAEntry(data, period, k - 1)]

\* ------------------------------------------------------- calculate_rsi
Deltas(prices) ==
  [k \in 1..(Len(prices) - 1) |-> Sub(prices[k + 1], prices[k])]
GainsOf(deltas) == [k \in 1..Len(deltas) |-> PyMax(deltas[k], R(0))]
LossesOf(deltas) ==
  [k \in 1..Len(deltas) |-> PyAbs(PyMin(deltas[k], R(0)))]
Gains(prices) == GainsOf(Deltas(prices))
Losses(prices) == LossesOf(Deltas(prices))

SeedAvg(xs, period) == Div(PySum(Slice(xs, 0, period)), R(period))
\* Smooth weighting the previous average by period, over period + 1
SmoothEven(avg, x, period) ==
  Div(Add(Mul(avg, R(period)), x), R(period + 1))

Smooth(avg, x, period) ==
  Div(Add(Mul(avg, R(period - 1)), x), R(period))

\* NoRsi one entry short
NoRsiShort(period) == [k \in 1..(period - 1) |-> None]

\* [None] * period
NoRsi(period) == [k \in 1..period |-> None]

\* RelStrength falling back to 1 on a zero average loss
RelStrengthOne(ag, al) == IF Neq(al, R(0)) THEN Div(ag, al) ELSE R(1)

RelStrength(ag, al) == IF Neq(al, R(0)) THEN Div(ag, al) ELSE R(0)
\* RsiValue saturating at 100 on a zero average loss
RsiValueSaturating(ag, al) ==
  IF Neq(al, R(0))
    THEN Sub(R(100), Div(R(100), Add(R(1), RelStrength(ag, al))))
    ELSE R(100)

RsiValue(ag, al) ==
  Sub(R(100), Div(R(100), Add(R(1), RelStrength(ag, al))))

\* --------------------------------------------------- generate_signals
\* Signal comparing the averages with >= and <=
SignalTies(ms, ml, r, os, ob) ==
  IF ms = None \/ ml = None \/ r = None THEN "HOLD"
  ELSE IF ~Lt(ms, ml) /\ Lt(r, os) THEN "BUY"
  ELSE IF ~Gt(ms, ml) /\ Gt(r, ob) THEN "SELL"
  ELSE "HOLD"

\* Signal with "or" for "and" in the BUY test
SignalEither(ms, ml, r, os, ob) ==
  IF ms = None \/ ml = None \/ r = None THEN "HOLD"
  ELSE IF Gt(ms, ml) \/ Lt(r, os) THEN "BUY"
  ELSE IF Lt(ms, ml) /\ Gt(r, ob) THEN "SELL"
  ELSE "HOLD"

\* Signal reading an undefined RSI as oversold
SignalNoRsiCheck(ms, ml, r, os, ob) ==
  IF ms = None \/ ml = None THEN "HOLD"
  ELSE IF Gt(ms, ml) /\ (r = None \/ Lt(r, os)) THEN "BUY"
  ELSE IF r # None /\ Lt(ms, ml) /\ Gt(r, ob) THEN "SELL"
  ELSE "HOLD"

Signal(ms, ml, r, os, ob) ==
  IF ms = None \/ ml = None \/ r = None THEN "HOLD"
  ELSE IF Gt(ms, ml) /\ Lt(r, os) THEN "BUY"
  ELSE IF Lt(ms, ml) /\ Gt(r, ob) THEN "SELL"
  ELSE "HOLD"

SignalLoop(n, mas, mal, rs, os, ob) ==
  [k \in 1..n |-> Signal(mas[k], mal[k], rs[k], os, ob)]

\* ------------------------------------------------------------- state
VARIABLES prices, short_period, long_period, rsi_period, oversold,
          overbought, pc, ma_short, ma_long, rsi, avg_gain, avg_loss, i,
          rs_values, signals

inputs == <<prices, short_period, long_period, rsi_period>>
vars == <<prices, short_period, long_period, rsi_period, oversold,
          overbought, pc, ma_short, ma_long, rsi, avg_gain, avg_loss, i,
          rs_values, signals>>

RECURSIVE SeqsUpTo(_, _)
SeqsUpTo(S, n) ==
  IF n = 0 THEN {<<>>}
  ELSE LET shorter == SeqsUpTo(S, n - 1)
       IN  shorter \cup
           {Append(s, x) : s \in {t \in shorter : Len(t) = n - 1}, x \in S}

\* int prices 1..MaxPrice; float prices, the tenths 0.7 and 1.0
IntPrices == {R(k) : k \in 1..MaxPrice}
FloatPrices == {ToFloat(RNorm(k, 10)) : k \in {7, 10}}

\* the series of the documented examples
Rising5 == [k \in 1..5 |-> R(k)]
Rising8 == [k \in 1..8 |-> R(k)]
Flat10 == [k \in 1..10 |-> R(10)]
FloatFlat10 == [k \in 1..10 |-> ToFloat(R(10))]

\* a flat start, a rise and a fall: a tie, a BUY and a SELL in one run
Swing5 == <<R(1), R(1), R(1), R(2), R(1)>>

\* oversold and overbought are arguments as well; only the signal loop
\* reads them, and they are drawn there
Locals0 ==
  /\ oversold = None
  /\ overbought = None
  /\ pc = "ma_short"
  /\ ma_short = None
  /\ ma_long = None
  /\ rsi = None
  /\ avg_gain = None
  /\ avg_loss = None
  /\ i = 0
  /\ rs_values = None
  /\ signals = None

Init ==
  /\ prices \in SeqsUpTo(IntPrices, MaxLen) \cup {Rising5, Rising8, Flat10, Swing5}
  /\ short_period \in Periods
  /\ long_period \in Periods
  /\ rsi_period \in Periods
  /\ Locals0

InitFloat ==
  /\ prices \in SeqsUpTo(FloatPrices, MaxLen - 1) \cup {FloatFlat10}
  /\ short_period \in Periods
  /\ long_period \in Periods
  /\ rsi_period \in Periods
  /\ Locals0

\* ma_short = calculate_moving_average(prices, short_period)
MAShort ==
  /\ pc = "ma_short"
  /\ IF short_period <= 0
       THEN pc' = "raised" /\ UNCHANGED ma_short
       ELSE /\ ma_short' = calculate_moving_average(prices, short_period)
            /\ pc' = "ma_long"
  /\ UNCHANGED <<inputs, oversold, overbought, ma_long, rsi, avg_gain, avg_loss, i, 
                 rs_values, signals>>

\* ma_long = calculate_moving_average(prices, long_period)
MALong ==
  /\ pc = "ma_long"
  /\ IF long_period <= 0
       THEN pc' = "raised" /\ UNCHANGED ma_long
       ELSE /\ ma_long' = calculate_moving_average(prices, long_period)
            /\ pc' = "rsi"
  /\ UNCHANGED <<inputs, oversold, overbought, ma_short, rsi, avg_gain, avg_loss, i, 
                 rs_values, signals>>

\* RSIEnter testing the length before the period
RSIEnterLengthFirst ==
  /\ pc = "rsi"
  /\ IF Len(prices) < rsi_period + 1
       THEN /\ rsi' = [k \in 1..Len(prices) |-> None]
            /\ pc' = "signals"
            /\ UNCHANGED <<avg_gain, avg_loss, i, rs_values>>
       ELSE IF rsi_period <= 0
       THEN /\ pc' = "raised"
            /\ UNCHANGED <<rsi, avg_gain, avg_loss, i, rs_values>>
       ELSE /\ avg_gain' = SeedAvg(Gains(prices), rsi_period)
            /\ avg_loss' = SeedAvg(Losses(prices), rsi_period)
            /\ rs_values' = Append(NoRsi(rsi_period),
                                   RsiValue(avg_gain', avg_loss'))
            /\ i' = rsi_period + 1
            /\ pc' = "rsi_loop"
            /\ UNCHANGED rsi
  /\ UNCHANGED <<inputs, oversold, overbought, ma_short, ma_long, signals>>

\* RSIEnter taking a series of exactly rsi_period prices as long enough
RSIEnterShortSeries ==
  /\ pc = "rsi"
  /\ IF rsi_period <= 0
       THEN /\ pc' = "raised"
            /\ UNCHANGED <<rsi, avg_gain, avg_loss, i, rs_values>>
       ELSE IF Len(prices) < rsi_period
       THEN /\ rsi' = [k \in 1..Len(prices) |-> None]
            /\ pc' = "signals"
            /\ UNCHANGED <<avg_gain, avg_loss, i, rs_values>>
       ELSE /\ avg_gain' = SeedAvg(Gains(prices), rsi_period)
            /\ avg_loss' = SeedAvg(Losses(prices), rsi_period)
            /\ rs_values' = Append(NoRsi(rsi_period),
                                   RsiValue(avg_gain', avg_loss'))
            /\ i' = rsi_period + 1
            /\ pc' = "rsi_loop"
            /\ UNCHANGED rsi
  /\ UNCHANGED <<inputs, oversold, overbought, ma_short, ma_long, signals>>

\* calculate_rsi(prices, rsi_period) up to the first RSI value
RSIEnter ==
  /\ pc = "rsi"
  /\ IF rsi_period <= 0
       THEN /\ pc' = "raised"
            /\ UNCHANGED <<rsi, avg_gain, avg_loss, i, rs_values>>
       ELSE IF Len(prices) < rsi_period + 1
       THEN /\ rsi' = [k \in 1..Len(prices) |-> None]
            /\ pc' = "signals"
            /\ UNCHANGED <<avg_gain, avg_loss, i, rs_values>>
       ELSE /\ avg_gain' = SeedAvg(Gains(prices), rsi_period)
            /\ avg_loss' = SeedAvg(Losses(prices), rsi_period)
            /\ rs_values' = Append(NoRsi(rsi_period),
                                   RsiValue(avg_gain', avg_loss'))
            /\ i' = rsi_period + 1
            /\ pc' = "rsi_loop"
            /\ UNCHANGED rsi
  /\ UNCHANGED <<inputs, oversold, overbought, ma_short, ma_long, signals>>

\* one iteration of the Wilder smoothing loop
RSILoop ==
  /\ pc = "rsi_loop"
  /\ i < Len(prices)
  /\ avg_gain' = Smooth(avg_gain, Gains(prices)[i], rsi_period)
  /\ avg_loss' = Smooth(avg_loss, Losses(prices)[i], rsi_period)
  /\ rs_values' = Append(rs_values, RsiValue(avg_gain', avg_loss'))
  /\ i' = i + 1
  /\ UNCHANGED <<inputs, oversold, overbought, pc, ma_short, ma_long, rsi,
                 signals>>

\* return rs_values
RSIReturn ==
  /\ pc = "rsi_loop"
  /\ i >= Len(prices)
  /\ rsi' = rs_values
  /\ pc' = "signals"
  /\ UNCHANGED <<inputs, oversold, overbought, ma_short, ma_long, avg_gain,
                 avg_loss, i, rs_values, signals>>

\* the signal loop and the return of generate_signals
Signals ==
  /\ pc = "signals"
  /\ \E os \in Thresholds, ob \in Thresholds :
       /\ oversold' = R(os)
       /\ overbought' = R(ob)
       /\ signals' = SignalLoop(Len(prices), ma_short, ma_long, rsi, R(os),
                                R(ob))
  /\ pc' = "returned"
  /\ UNCHANGED <<inputs, ma_short, ma_long, rsi, avg_gain, avg_loss, i,
                 rs_values>>

Next ==
  \/ MAShort
  \/ MALong
  \/ RSIEnter
  \/ RSILoop
  \/ RSIReturn
  \/ Signals

Spec == Init /\ [][Next]_vars

\* the same program on float prices
SpecFloat == InitFloat /\ [][Next]_vars

\* ------------------------------------------------------------ properties
\* order of two exact values, on their numerators and denominators
Above(x, y) == x[1] * y[2] > y[1] * x[2]
Below(x, y) == x[1] * y[2] < y[1] * x[2]

Max2(a, b) == IF a > b THEN a ELSE b
PositivePeriods == short_period > 0 /\ long_period > 0 /\ rsi_period > 0
Ready(k) == ma_short[k] # None /\ ma_long[k] # None /\ rsi[k] # None

\* C1: the returned list is as long as the price series, and at every index
\* where the three indicators are defined the signal is BUY exactly when
\* shortMA > longMA and rsi < oversold, SELL exactly when shortMA < longMA
\* and rsi > overbought, and HOLD otherwise (so on every tie of the averages)
C1_SignalRule ==
  pc = "returned" =>
    /\ Len(signals) = Len(prices)
    /\ \A k \in 1..Len(prices) : Ready(k) =>
         LET buy == Above(ma_short[k], ma_long[k]) /\ Below(rsi[k], oversold)
             sell == Below(ma_short[k], ma_long[k]) /\ Above(rsi[k], overbought)
         IN  /\ signals[k] = "BUY" <=> buy
             /\ signals[k] = "SELL" <=> sell
             /\ signals[k] = "HOLD" <=> (~buy /\ ~sell)
             /\ (~Above(ma_short[k], ma_long[k]) /\ ~Below(ma_short[k], ma_long[k]))
                  => signals[k] = "HOLD"

\* a run that returned a BUY, a SELL and a HOLD on a tie of the averages
C1_Witness ==
  /\ pc = "returned"
  /\ \E k \in 1..Len(prices) : signals[k] = "BUY"
  /\ \E k \in 1..Len(prices) : signals[k] = "SELL"
  /\ \E k \in 1..Len(prices) :
       Ready(k) /\ ma_short[k] = ma_long[k] /\ Below(rsi[k], oversold)

\* C2: the signal is HOLD at every index where one of the three indicators
\* is undefined, hence at every index below
\* max(short_period - 1, long_period - 1, rsi_period)
C2_HoldOnUndefined ==
  pc = "returned" =>
    \A k \in 1..Len(prices) :
      /\ ~Ready(k) => signals[k] = "HOLD"
      /\ k - 1 < Max2(Max2(short_period - 1, long_period - 1), rsi_period)
           => signals[k] = "HOLD"

\* a returned run where the RSI alone is undefined at an index whose short
\* average is above the long one, and a later index is not HOLD
C2_Witness ==
  /\ pc = "returned"
  /\ \E k \in 1..Len(prices) :
       /\ ma_short[k] # None /\ ma_long[k] # None /\ rsi[k] = None
       /\ Above(ma_short[k], ma_long[k])
  /\ \E k \in 1..Len(prices) : signals[k] # "HOLD"

\* prices[lo] + ... + prices[hi] of an int series (Python indices)
RECURSIVE PriceSum(_, _)
PriceSum(lo, hi) ==
  IF hi < lo THEN 0 ELSE PriceSum(lo, hi - 1) + prices[hi + 1][1]

\* ma is the moving average of period p of the price series
IsMovingAverage(ma, p) ==
  /\ Len(ma) = Len(prices)
  /\ \A idx \in 0..(Len(prices) - 1) :
       IF idx <= p - 2 THEN ma[idx + 1] = None
       ELSE /\ ma[idx + 1] # None
            /\ ma[idx + 1][1] * p = ma[idx + 1][2] * PriceSum(idx - p + 1, idx)

C3_ExampleWitness ==
  ma_short # None /\ prices = Rising5 /\ short_period = 3

\* C4: a period <= 0 raises and no result is produced, whatever the series
\* (empty and too short ones included): the call that is given it raises
\* before it computes anything, and generate_signals never returns
C4_InvalidPeriodRaises ==
  /\ (short_period <= 0 /\ pc # "ma_short") => (pc = "raised" /\ ma_short = None)
  /\ (long_period <= 0 /\ pc \notin {"ma_short", "ma_long"})
       => (pc = "raised" /\ ma_long = None)
  /\ (rsi_period <= 0 /\ pc \notin {"ma_short", "ma_long", "rsi"})
       => (pc = "raised" /\ rsi = None /\ rs_values = None)
  /\ ~PositivePeriods => (pc # "returned" /\ signals = None)
  /\ pc = "raised" => ~PositivePeriods

\* calculate_rsi has raised on the empty series with period 0
C4_Witness ==
  /\ pc = "raised"
  /\ prices = <<>>
  /\ short_period > 0 /\ long_period > 0 /\ rsi_period = 0

AllNone(xs) == \A k \in 1..Len(xs) : xs[k] = None

\* C5: for a positive period p and a series of fewer than p + 1 prices,
\* calculate_rsi does not raise and returns one undefined entry per price,
\* so that generate_signals returns HOLD at every index
C5_ShortSeriesAllUndefined ==
  (PositivePeriods /\ Len(prices) < rsi_period + 1) =>
    /\ pc \notin {"raised", "rsi_loop"}
    /\ pc \in {"signals", "returned"}
         => (Len(rsi) = Len(prices) /\ AllNone(rsi))
    /\ pc = "returned"
         => (Len(signals) = Len(prices)
             /\ \A k \in 1..Len(prices) : signals[k] = "HOLD")

\* generate_signals returned on a series of exactly rsi_period prices whose
\* two averages are defined and differ at some index
C5_Witness ==
  /\ pc = "returned"
  /\ Len(prices) = rsi_period
  /\ \E k \in 1..Len(prices) :
       /\ ma_short[k] # None /\ ma_long[k] # None
       /\ Above(ma_short[k], ma_long[k])

\* C6: for a positive period p and a series of n >= p + 1 prices,
\* calculate_rsi returns exactly n entries, undefined at indices 0..p-1 and
\* defined at every index p..n-1
C6_RsiDefinedFromPeriod ==
  (pc \in {"signals", "returned"} /\ Len(prices) >= rsi_period + 1) =>
    /\ Len(rsi) = Len(prices)
    /\ \A idx \in 0..(Len(prices) - 1) :
         (rsi[idx + 1] = None) <=> (idx <= rsi_period - 1)

\* calculate_rsi returned on a series of exactly p + 1 prices, p > 1: one
\* defined value
C6_Witness ==
  /\ pc = "signals"
  /\ rsi_period > 1
  /\ Len(prices) = rsi_period + 1
  /\ rsi[Len(prices)] # None

\* calculate_rsi returned after at least two iterations of its loop
C6_LoopWitness ==
  /\ pc = "signals"
  /\ Len(prices) >= rsi_period + 3

NoDecrease ==
  \A k \in 1..(Len(prices) - 1) : ~Above(prices[k], prices[k + 1])

\* C7: wherever the smoothed average loss is 0 the RSI value is 0; on a
\* series with no decreasing step the average loss is 0 at every step and
\* every defined RSI value is 0, as for rsi([1,...,8], 3)
C7_ZeroLossGivesZero ==
  /\ (pc = "rsi_loop" /\ avg_loss = R(0)) => rs_values[Len(rs_values)] = R(0)
  /\ (pc = "rsi_loop" /\ NoDecrease) => avg_loss = R(0)
  /\ (pc \in {"signals", "returned"} /\ NoDecrease) =>
       \A k \in 1..Len(rsi) : rsi[k] # None => rsi[k] = R(0)
  /\ (pc \in {"signals", "returned"} /\ prices = Rising8 /\ rsi_period = 3) =>
       rsi = <<None, None, None, R(0), R(0), R(0), R(0), R(0)>>

\* the loop is at an index of a rising series past the seed, with a positive
\* average gain and a zero average loss
C7_Witness ==
  /\ pc = "rsi_loop"
  /\ i > rsi_period + 1
  /\ NoDecrease
  /\ Above(avg_gain, R(0))
  /\ avg_loss = R(0)

\* the documented example has been computed
C7_ExampleWitness ==
  pc = "signals" /\ prices = Rising8 /\ rsi_period = 3

IsConstant(xs) == \A k \in 1..Len(xs) : xs[k] = xs[1]
AllHold == \A k \in 1..Len(signals) : signals[k] = "HOLD"

\* a float price that is a whole number
WholePrice(x) == \E n \in 1..10 : x = ToFloat(R(n))

\* C8 as stated: on a constant price series, whatever the periods and the
\* thresholds, generate_signals returns HOLD at every index
C8_FlatSeriesHolds ==
  (pc = "returned" /\ IsConstant(prices)) => AllHold

\* C8 amended: on a constant series of a whole-number price every defined
\* shortMA and longMA equals the price and every signal is HOLD
C8_FlatWholeSeriesHolds ==
  (pc = "returned" /\ IsConstant(prices) /\ prices # <<>>
     /\ WholePrice(prices[1])) =>
    /\ AllHold
    /\ \A k \in 1..Len(prices) :
         /\ ma_short[k] # None => ma_short[k] = prices[1]
         /\ ma_long[k] # None => ma_long[k] = prices[1]

\* generate_signals returned on ten prices of 10.0 with different periods of
\* the two averages and all three indicators defined at the last index
C8_Witness ==
  /\ pc = "returned"
  /\ prices = FloatFlat10
  /\ short_period # long_period
  /\ Ready(Len(prices))

\* gains and losses of an int series, by Python index of the earlier price
IntMax(a, b) == IF a > b THEN a ELSE b
GainAt(j) == IntMax(prices[j + 2][1] - prices[j + 1][1], 0)
LossAt(j) == IntMax(prices[j + 1][1] - prices[j + 2][1], 0)

RECURSIVE GainSum(_)
GainSum(n) == IF n = 0 THEN 0 ELSE GainSum(n - 1) + GainAt(n - 1)
RECURSIVE LossSum(_)
LossSum(n) == IF n = 0 THEN 0 ELSE LossSum(n - 1) + LossAt(n - 1)

\* the averages of C9 at index idx >= rsi_period, times
\* rsi_period ^ (idx - rsi_period + 1)
RECURSIVE WilderGain(_)
WilderGain(idx) ==
  IF idx = rsi_period THEN GainSum(rsi_period)
  ELSE WilderGain(idx - 1) * (rsi_period - 1)
         + GainAt(idx - 1) * rsi_period ^ (idx - rsi_period)
RECURSIVE WilderLoss(_)
WilderLoss(idx) ==
  IF idx = rsi_period THEN LossSum(rsi_period)
  ELSE WilderLoss(idx - 1) * (rsi_period - 1)
         + LossAt(idx - 1) * rsi_period ^ (idx - rsi_period)

\* v = 100 - 100 / (1 + G / L), for L # 0
IsRsiOf(v, G, L) == (100 * v[2] - v[1]) * (L + G) = 100 * L * v[2]

\* C9: in exact arithmetic the averages at index p are the means of the
\* first p gains and losses, those at each later index i are
\* (previous average * (p - 1) + gain[i-1] or loss[i-1]) / p, and where the
\* average loss is not 0 the RSI is 100 - 100 / (1 + avg_gain / avg_loss)
C9_WilderRecurrence ==
  /\ pc = "rsi_loop" =>
       /\ avg_gain[1] * rsi_period ^ (i - rsi_period)
            = avg_gain[2] * WilderGain(i - 1)
       /\ avg_loss[1] * rsi_period ^ (i - rsi_period)
            = avg_loss[2] * WilderLoss(i - 1)
  /\ (pc \in {"signals", "returned"} /\ Len(prices) >= rsi_period + 1) =>
       \A idx \in rsi_period..(Len(prices) - 1) :
         WilderLoss(idx) # 0 =>
           IsRsiOf(rsi[idx + 1], WilderGain(idx), WilderLoss(idx))

\* the loop has smoothed twice, with period > 1, averages that were and are
\* both positive
C9_Witness ==
  /\ pc = "rsi_loop"
  /\ rsi_period > 1
  /\ i >= rsi_period + 2
  /\ Above(avg_gain, R(0)) /\ Above(avg_loss, R(0))
  /\ rs_values[i - 1] # None /\ Above(rs_values[i - 1], R(0))

StrictlyIncreasing ==
  \A k \in 1..(Len(prices) - 1) : Below(prices[k], prices[k + 1])

\* C10: on a strictly increasing series, with short_period < long_period,
\* oversold > 0 and overbought >= 0, the signal is BUY at every index
\* i >= max(long_period - 1, rsi_period) and SELL at none
C10_UptrendBuys ==
  (pc = "returned" /\ StrictlyIncreasing /\ short_period < long_period
     /\ Above(oversold, R(0)) /\ ~Below(overbought, R(0))) =>
    \A k \in 1..Len(prices) :
      /\ signals[k] # "SELL"
      /\ k - 1 >= Max2(long_period - 1, rsi_period) => signals[k] = "BUY"

\* a strictly increasing series came back with a HOLD and then two BUYs
C10_Witness ==
  /\ pc = "returned"
  /\ StrictlyIncreasing
  /\ short_period < long_period
  /\ Above(oversold, R(0))
  /\ Len(prices) >= 3
  /\ signals[1] = "HOLD"
  /\ signals[Len(prices) - 1] = "BUY"
  /\ signals[Len(prices)] = "BUY"
====
